---- MODULE Spec2Model ----
(***************************************************************************)
(* Model of src/parser/utils.rs of xsd-parser-rs: the identifier           *)
(* sanitizer, the comment formatter, the type resolver, the parent-name    *)
(* walk, the struct annotation and the attribute-field extractor.          *)
(*                                                                         *)
(* A Rust &str / String is a sequence of one-character strings, an         *)
(* Option<T> is a sequence of length 0 (None) or 1 (Some).  Each behaviour *)
(* is one call: Init draws the function and its arguments, the function's  *)
(* action computes the return value.                                       *)
(***************************************************************************)
EXTENDS Integers, Sequences, FiniteSets

VARIABLES call, ret, pc, cur

vars == <<call, ret, pc, cur>>

----------------------------------------------------------------------------
(* Bounds of the explored inputs *)

MaxNameLen == 4
MaxTokenLen == 4
MaxLineLen == 8
MaxWidth == 7
MaxIndent == 2
MaxDepth == 4
MaxChildren == 4
MaxUriLen == 2

----------------------------------------------------------------------------
(* Option<T> *)

None == <<>>

Some(x) == <<x>>

is_some(o) == Len(o) = 1

unwrap(o) == o[1]

(* Strings over an alphabet with lengths lo..hi *)
Strings(alphabet, lo, hi) == UNION { [1..n -> alphabet] : n \in lo..hi }

----------------------------------------------------------------------------
(* char: the classes and the ASCII case maps of std *)

LowerLetters == <<"a","b","c","d","e","f","g","h","i","j","k","l","m","n","o","p","q","r","s","t","u","v","w","x","y","z">>

UpperLetters == <<"A","B","C","D","E","F","G","H","I","J","K","L","M","N","O","P","Q","R","S","T","U","V","W","X","Y","Z">>

Digits == <<"0","1","2","3","4","5","6","7","8","9">>

InSeq(c, s) == \E i \in 1..Len(s) : s[i] = c

IndexIn(c, s) == CHOOSE i \in 1..Len(s) : s[i] = c

is_lowercase(c) == InSeq(c, LowerLetters)

is_uppercase(c) == InSeq(c, UpperLetters)

is_numeric(c) == InSeq(c, Digits)

is_alphanumeric(c) == is_lowercase(c) \/ is_uppercase(c) \/ is_numeric(c)

to_ascii_uppercase(c) == IF is_lowercase(c) THEN UpperLetters[IndexIn(c, LowerLetters)] ELSE c

to_ascii_lowercase(c) == IF is_uppercase(c) THEN LowerLetters[IndexIn(c, UpperLetters)] ELSE c

----------------------------------------------------------------------------
(* str helpers of std *)

(* s[from..] with 0-based byte offset `from`; the caller guards from <= len *)
SliceFrom(s, from) == SubSeq(s, from + 1, Len(s))

(* s[0..to] *)
SliceTo(s, to) == SubSeq(s, 1, to)

starts_with(s, p) == Len(p) <= Len(s) /\ SubSeq(s, 1, Len(p)) = p

(* str::find(c): Some(0-based index of the first occurrence) or None *)
find(s, c) ==
    IF InSeq(c, s)
    THEN Some((CHOOSE i \in 1..Len(s) : s[i] = c /\ \A j \in 1..(i - 1) : s[j] # c) - 1)
    ELSE None

(* str::replace for one-character patterns *)
replace_char(s, from, to) == [i \in 1..Len(s) |-> IF s[i] = from THEN to ELSE s[i]]

----------------------------------------------------------------------------
(* inflector::cases::case (crate Inflector 0.11) *)

is_not_alphanumeric(c) == ~is_alphanumeric(c)

char_is_seperator(c) == is_not_alphanumeric(c)

(* trim_end_matches(is_not_alphanumeric) *)
RECURSIVE trim_right(_)
trim_right(s) ==
    IF s = <<>> THEN s
    ELSE IF is_not_alphanumeric(s[Len(s)]) THEN trim_right(SubSeq(s, 1, Len(s) - 1))
    ELSE s

(* test_char == test_char.to_ascii_uppercase(): true of digits and signs too *)
char_is_uppercase(c) == c = to_ascii_uppercase(c)

(* chars().nth(i).unwrap_or('A') with a 1-based position *)
NthOrA(s, i) == IF i >= 1 /\ i <= Len(s) THEN s[i] ELSE "A"

next_or_previous_char_is_lowercase(s, i) ==
    is_lowercase(NthOrA(s, i + 1)) \/ is_lowercase(NthOrA(s, i - 1))

requires_seperator(s, i, c, first_character) ==
    ~first_character /\ char_is_uppercase(c) /\ next_or_previous_char_is_lowercase(s, i)

(* the loop of to_case_snake_like over the trimmed string t, from position i *)
RECURSIVE SnakeLoop(_, _, _, _, _)
SnakeLoop(s, t, i, first_character, result) ==
    IF i > Len(t) THEN result
    ELSE LET c == t[i] IN
         IF char_is_seperator(c)
         THEN IF ~first_character
              THEN SnakeLoop(s, t, i + 1, TRUE, Append(result, "_"))
              ELSE SnakeLoop(s, t, i + 1, first_character, result)
         ELSE IF requires_seperator(s, i, c, first_character)
         THEN SnakeLoop(s, t, i + 1, FALSE, result \o <<"_", to_ascii_lowercase(c)>>)
         ELSE SnakeLoop(s, t, i + 1, FALSE, Append(result, to_ascii_lowercase(c)))

to_case_snake_like(s) == SnakeLoop(s, trim_right(s), 1, TRUE, <<>>)

to_snake_case(s) == to_case_snake_like(s)

last_char_lower_current_is_upper_or_new_word(new_word, last_char, c) ==
    new_word \/ ((is_lowercase(last_char) /\ is_uppercase(c)) /\ last_char # " ")

(* append_on_new_word with has_seperator = false, inverted = false *)
append_on_new_word(result, c) == Append(result, to_ascii_uppercase(c))

(* the loop of to_case_camel_like over the trimmed string t, from position i *)
RECURSIVE CamelLoop(_, _, _, _, _, _)
CamelLoop(t, i, new_word, last_char, found_real_char, result) ==
    IF i > Len(t) THEN result
    ELSE LET c == t[i] IN
         IF char_is_seperator(c) /\ found_real_char
         THEN CamelLoop(t, i + 1, TRUE, last_char, found_real_char, result)
         ELSE IF ~found_real_char /\ is_not_alphanumeric(c)
         THEN CamelLoop(t, i + 1, new_word, last_char, found_real_char, result)
         ELSE IF is_numeric(c)
         THEN CamelLoop(t, i + 1, TRUE, last_char, TRUE, Append(result, c))
         ELSE IF last_char_lower_current_is_upper_or_new_word(new_word, last_char, c)
         THEN CamelLoop(t, i + 1, FALSE, last_char, TRUE, append_on_new_word(result, c))
         ELSE CamelLoop(t, i + 1, new_word, c, TRUE, Append(result, to_ascii_lowercase(c)))

to_case_camel_like(s) == CamelLoop(trim_right(s), 1, TRUE, " ", FALSE, <<>>)

to_pascal_case(s) == to_case_camel_like(s)

----------------------------------------------------------------------------
(* Return values: a function either returns a value or panics *)

NoRet == [kind |-> "none", val |-> <<>>]

Ok(v) == [kind |-> "ok", val |-> v]

Panic == [kind |-> "panic", val |-> <<>>]

----------------------------------------------------------------------------
(* Identifier sanitizer *)

RS_KEYWORDS ==
    { <<"a","b","s","t","r","a","c","t">>,
      <<"a","l","i","g","n","o","f">>,
      <<"a","s">>,
      <<"b","e","c","o","m","e">>,
      <<"b","o","x">>,
      <<"b","r","e","a","k">>,
      <<"c","o","n","s","t">>,
      <<"c","o","n","t","i","n","u","e">>,
      <<"c","r","a","t","e">>,
      <<"d","o">>,
      <<"e","l","s","e">>,
      <<"e","n","u","m">>,
      <<"e","x","t","e","r","n"," ","c","r","a","t","e">>,
      <<"e","x","t","e","r","n">>,
      <<"f","a","l","s","e">>,
      <<"f","i","n","a","l">>,
      <<"f","n">>,
      <<"f","o","r">>,
      <<"i","f"," ","l","e","t">>,
      <<"i","f">>,
      <<"i","m","p","l">>,
      <<"i","n">>,
      <<"l","e","t">>,
      <<"l","o","o","p">>,
      <<"m","a","c","r","o">>,
      <<"m","a","t","c","h">>,
      <<"m","o","d">>,
      <<"m","o","v","e">>,
      <<"m","u","t">>,
      <<"o","f","f","s","e","t","o","f">>,
      <<"o","v","e","r","r","i","d","e">>,
      <<"p","r","i","v">>,
      <<"p","r","o","c">>,
      <<"p","u","b">>,
      <<"p","u","r","e">>,
      <<"r","e","f">>,
      <<"r","e","t","u","r","n">>,
      <<"S","e","l","f">>,
      <<"s","e","l","f">>,
      <<"s","i","z","e","o","f">>,
      <<"s","t","a","t","i","c">>,
      <<"s","t","r","u","c","t">>,
      <<"s","u","p","e","r">>,
      <<"t","r","a","i","t">>,
      <<"t","r","u","e">>,
      <<"t","y","p","e">>,
      <<"t","y","p","e","o","f">>,
      <<"u","n","s","a","f","e">>,
      <<"u","n","s","i","z","e","d">>,
      <<"u","s","e">>,
      <<"v","i","r","t","u","a","l">>,
      <<"w","h","e","r","e">>,
      <<"w","h","i","l","e">>,
      <<"y","i","e","l","d">> }

(* the guard without its reserved-word test *)
NeedsGuard_DigitOnly(result) == is_numeric(result[1])

(* result.chars().next().unwrap().is_numeric() || RS_KEYWORDS.contains(&result) *)
NeedsGuard(result) == is_numeric(result[1]) \/ result \in RS_KEYWORDS

(* unwrap() on the first char of an empty conversion result panics *)
Guarded(result) ==
    IF result = <<>> THEN Panic
    ELSE IF NeedsGuard(result) THEN Ok(<<"_">> \o result)
    ELSE Ok(result)

get_field_name(name) == Guarded(to_snake_case(name))

get_type_name(name) == Guarded(to_pascal_case(name))

----------------------------------------------------------------------------
(* Type resolver *)

(* the literal arms of match_type, in source order: <<token, target type>> *)
BuiltinTable ==
    << <<<<"x","s",":","h","e","x","B","i","n","a","r","y">>, <<"S","t","r","i","n","g">>>>,
       <<<<"x","s",":","b","a","s","e","6","4","B","i","n","a","r","y">>, <<"S","t","r","i","n","g">>>>,
       <<<<"x","s",":","b","o","o","l","e","a","n">>, <<"b","o","o","l">>>>,
       <<<<"x","s",":","i","n","t","e","g","e","r">>, <<"i","6","4">>>>,
       <<<<"x","s",":","n","o","n","N","e","g","a","t","i","v","e","I","n","t","e","g","e","r">>, <<"u","6","4">>>>,
       <<<<"x","s",":","p","o","s","i","t","i","v","e","I","n","t","e","g","e","r">>, <<"u","6","4">>>>,
       <<<<"x","s",":","n","o","n","P","o","s","i","t","i","v","e","I","n","t","e","g","e","r">>, <<"i","6","4">>>>,
       <<<<"x","s",":","n","e","g","a","t","i","v","e","I","n","t","e","g","e","r">>, <<"i","6","4">>>>,
       <<<<"x","s",":","l","o","n","g">>, <<"i","6","4">>>>,
       <<<<"x","s",":","i","n","t">>, <<"i","3","2">>>>,
       <<<<"x","s",":","s","h","o","r","t">>, <<"i","1","6">>>>,
       <<<<"x","s",":","b","y","t","e">>, <<"i","8">>>>,
       <<<<"x","s",":","u","n","s","i","g","n","e","d","L","o","n","g">>, <<"u","6","4">>>>,
       <<<<"x","s",":","u","n","s","i","g","n","e","d","I","n","t">>, <<"u","3","2">>>>,
       <<<<"x","s",":","u","n","s","i","g","n","e","d","S","h","o","r","t">>, <<"u","1","6">>>>,
       <<<<"x","s",":","u","n","s","i","g","n","e","d","B","y","t","e">>, <<"u","8">>>>,
       <<<<"x","s",":","d","e","c","i","m","a","l">>, <<"f","6","4">>>>,
       <<<<"x","s",":","d","o","u","b","l","e">>, <<"f","6","4">>>>,
       <<<<"x","s",":","f","l","o","a","t">>, <<"f","6","4">>>>,
       <<<<"x","s",":","d","a","t","e">>, <<"S","t","r","i","n","g">>>>,
       <<<<"x","s",":","t","i","m","e">>, <<"S","t","r","i","n","g">>>>,
       <<<<"x","s",":","d","a","t","e","T","i","m","e">>, <<"S","t","r","i","n","g">>>>,
       <<<<"x","s",":","d","a","t","e","T","i","m","e","S","t","a","m","p">>, <<"S","t","r","i","n","g">>>>,
       <<<<"x","s",":","d","u","r","a","t","i","o","n">>, <<"t","t",":",":","D","u","r","a","t","i","o","n">>>>,
       <<<<"x","s",":","g","D","a","y">>, <<"S","t","r","i","n","g">>>>,
       <<<<"x","s",":","g","M","o","n","t","h">>, <<"S","t","r","i","n","g">>>>,
       <<<<"x","s",":","g","M","o","n","t","h","D","a","y">>, <<"S","t","r","i","n","g">>>>,
       <<<<"x","s",":","g","Y","e","a","r">>, <<"S","t","r","i","n","g">>>>,
       <<<<"x","s",":","g","Y","e","a","r","M","o","n","t","h">>, <<"S","t","r","i","n","g">>>>,
       <<<<"x","s",":","s","t","r","i","n","g">>, <<"S","t","r","i","n","g">>>>,
       <<<<"x","s",":","n","o","r","m","a","l","i","z","e","d","S","t","r","i","n","g">>, <<"S","t","r","i","n","g">>>>,
       <<<<"x","s",":","t","o","k","e","n">>, <<"S","t","r","i","n","g">>>>,
       <<<<"x","s",":","l","a","n","g","u","a","g","e">>, <<"S","t","r","i","n","g">>>>,
       <<<<"x","s",":","N","a","m","e">>, <<"S","t","r","i","n","g">>>>,
       <<<<"x","s",":","N","C","N","a","m","e">>, <<"S","t","r","i","n","g">>>>,
       <<<<"x","s",":","E","N","T","I","T","Y">>, <<"S","t","r","i","n","g">>>>,
       <<<<"x","s",":","I","D">>, <<"S","t","r","i","n","g">>>>,
       <<<<"x","s",":","I","D","R","E","F">>, <<"S","t","r","i","n","g">>>>,
       <<<<"x","s",":","N","M","T","O","K","E","N">>, <<"S","t","r","i","n","g">>>>,
       <<<<"x","s",":","a","n","y","U","R","I">>, <<"S","t","r","i","n","g">>>>,
       <<<<"x","s",":","Q","N","a","m","e">>, <<"S","t","r","i","n","g">>>>,
       <<<<"x","s",":",":","N","O","T","A","T","I","O","N">>, <<"S","t","r","i","n","g">>>>,
       <<<<"x","s",":","E","N","T","I","T","I","E","S">>, <<"V","e","c","<","S","t","r","i","n","g",">">>>>,
       <<<<"x","s",":","I","D","R","E","F","S">>, <<"V","e","c","<","S","t","r","i","n","g",">">>>>,
       <<<<"x","s",":","N","M","T","O","K","E","N","S">>, <<"V","e","c","<","S","t","r","i","n","g",">">>>> >>

BuiltinIndex(type_name) == { i \in 1..Len(BuiltinTable) : BuiltinTable[i][1] = type_name }

IsBuiltin(type_name) == BuiltinIndex(type_name) # {}

(* the first matching arm *)
BuiltinType(type_name) ==
    BuiltinTable[CHOOSE i \in BuiltinIndex(type_name) : \A j \in BuiltinIndex(type_name) : i <= j][2]

(* the local fn replace of match_type *)
replace(s) ==
    LET index == find(s, ":") IN
    IF is_some(index)
    THEN SliceTo(s, unwrap(index)) \o <<":", ":">>
            \o to_pascal_case(replace_char(SliceFrom(s, unwrap(index)), "-", "_"))
    ELSE to_pascal_case(replace_char(s, "-", "_"))

(* Namespace::name() of an Option<&Namespace> *)
ns_prefix(target_ns) == IF is_some(target_ns) THEN unwrap(target_ns).name ELSE None

(* the catch-all arm x => ...; &x[name.len() + 1..] panics past the end of x *)
match_user_type(x, target_ns) ==
    LET prefix == ns_prefix(target_ns) IN
    IF is_some(prefix)
    THEN LET name == unwrap(prefix) IN
         IF starts_with(x, name)
         THEN IF Len(name) + 1 > Len(x)
              THEN Panic
              ELSE Ok(to_pascal_case(SliceFrom(x, Len(name) + 1)))
         ELSE Ok(replace(x))
    ELSE Ok(replace(x))

(* the resolver with the namespace test ahead of the literal arms *)
match_type_NamespaceFirst(type_name, target_ns) ==
    IF is_some(ns_prefix(target_ns)) /\ starts_with(type_name, unwrap(ns_prefix(target_ns)))
    THEN match_user_type(type_name, target_ns)
    ELSE IF IsBuiltin(type_name)
    THEN Ok(BuiltinType(type_name))
    ELSE match_user_type(type_name, target_ns)

match_type(type_name, target_ns) ==
    IF IsBuiltin(type_name)
    THEN Ok(BuiltinType(type_name))
    ELSE match_user_type(type_name, target_ns)

----------------------------------------------------------------------------
(* Documentation formatter *)

is_whitespace(c) == c = " "

(* str::split_whitespace: the maximal runs of non-whitespace, in order *)
RECURSIVE SplitLoop(_, _, _, _)
SplitLoop(s, i, word, words) ==
    IF i > Len(s)
    THEN IF word = <<>> THEN words ELSE Append(words, word)
    ELSE IF is_whitespace(s[i])
    THEN SplitLoop(s, i + 1, <<>>, IF word = <<>> THEN words ELSE Append(words, word))
    ELSE SplitLoop(s, i + 1, Append(word, s[i]), words)

split_whitespace(s) == SplitLoop(s, 1, <<>>, <<>>)

(* " ".repeat(n) *)
repeat_space(n) == [i \in 1..n |-> " "]

(* the loop with the fit test off by one: <= in place of < *)
RECURSIVE WrapLoop_OffByOne(_, _, _, _, _, _)
WrapLoop_OffByOne(words, i, max_len, indent, splitted, current_line_length) ==
    IF i > Len(words) THEN splitted
    ELSE LET word == words[i]
             len == Len(word)
         IN  IF current_line_length + len <= max_len
             THEN WrapLoop_OffByOne(words, i + 1, max_len, indent,
                           splitted \o <<" ">> \o word,
                           current_line_length + 1 + len)
             ELSE WrapLoop_OffByOne(words, i + 1, max_len, indent,
                           splitted \o <<"\n">> \o repeat_space(indent) \o <<"/", "/", " ">> \o word,
                           indent + 3 + len)

(* the for loop of split_comment_line from word i on *)
RECURSIVE WrapLoop(_, _, _, _, _, _)
WrapLoop(words, i, max_len, indent, splitted, current_line_length) ==
    IF i > Len(words) THEN splitted
    ELSE LET word == words[i]
             len == Len(word)
         IN  IF current_line_length + len < max_len
             THEN WrapLoop(words, i + 1, max_len, indent,
                           splitted \o <<" ">> \o word,
                           current_line_length + 1 + len)
             ELSE WrapLoop(words, i + 1, max_len, indent,
                           splitted \o <<"\n">> \o repeat_space(indent) \o <<"/", "/", " ">> \o word,
                           indent + 3 + len)

split_comment_line(s, max_len, indent) ==
    WrapLoop(split_whitespace(s), 1, max_len, indent,
             repeat_space(indent) \o <<"/", "/">>, indent + 2) \o <<"\n">>

----------------------------------------------------------------------------
(* Parent-name walk.  A document is seen from the node as its path: the     *)
(* elements from the document element (position 1) down to the node (last  *)
(* position); the parent of the document element is the root node, which   *)
(* is not an element.                                                      *)

SchemaElement == <<"S","c","h","e","m","a","E","l","e","m","e","n","t">>

UnsupportedName == <<"U","n","s","u","p","p","o","r","t","e","d","N","a","m","e">>

(* Node::parent_element of the element at position i of the path *)
parent_element(i) == IF i > 1 THEN Some(i - 1) ELSE None

----------------------------------------------------------------------------
(* Struct annotation *)

derives ==
    <<"#","[","d","e","r","i","v","e","(","D","e","f","a","u","l","t",","," ","P","a","r","t","i","a","l","E","q",","," ","D","e","b","u","g",","," ","Y","a","S","e","r","i","a","l","i","z","e",","," ","Y","a","D","e","s","e","r","i","a","l","i","z","e",")","]","\n">>

(* the annotation with the prefix-less namespace collapsed into the empty directive *)
struct_macro_Collapsed(target_namespace) ==
    IF is_some(target_namespace)
    THEN LET tn == unwrap(target_namespace) IN
         IF is_some(tn.name)
         THEN derives \o <<"#","[","y","a","s","e","r","d","e","(","p","r","e","f","i","x"," ","="," ","\"">> \o unwrap(tn.name)
                  \o <<"\"",","," ","n","a","m","e","s","p","a","c","e"," ","="," ","\"">> \o unwrap(tn.name)
                  \o <<":", " ">> \o tn.uri \o <<"\"",")","]","\n">>
         ELSE derives \o <<"#","[","y","a","s","e","r","d","e","(",")","]","\n">>
    ELSE derives \o <<"#","[","y","a","s","e","r","d","e","(",")","]","\n">>

struct_macro(target_namespace) ==
    IF is_some(target_namespace)
    THEN LET tn == unwrap(target_namespace) IN
         IF is_some(tn.name)
         THEN derives \o <<"#","[","y","a","s","e","r","d","e","(","p","r","e","f","i","x"," ","="," ","\"">> \o unwrap(tn.name)
                  \o <<"\"",","," ","n","a","m","e","s","p","a","c","e"," ","="," ","\"">> \o unwrap(tn.name)
                  \o <<":", " ">> \o tn.uri \o <<"\"",")","]","\n">>
         ELSE derives \o <<"#","[","y","a","s","e","r","d","e","(","n","a","m","e","s","p","a","c","e"," ","="," ","\"">> \o tn.uri \o <<"\"",")","]","\n">>
    ELSE derives \o <<"#","[","y","a","s","e","r","d","e","(",")","]","\n">>

----------------------------------------------------------------------------
(* Attribute field extractor *)

(* the filter closure: n.is_element() && n.xsd_type() == ElementType::Attribute *)
IsAttributeChild(n) == n.is_element /\ n.xsd_type = "Attribute"

(* the same with a non-field entity skipped instead of aborting *)
RECURSIVE CollectFields_Skip(_, _, _)
CollectFields_Skip(children, i, fields) ==
    IF i > Len(children) THEN Ok(fields)
    ELSE IF IsAttributeChild(children[i]) /\ children[i].entity.kind = "StructField"
    THEN CollectFields_Skip(children, i + 1, Append(fields, children[i].entity))
    ELSE CollectFields_Skip(children, i + 1, fields)

(* filter + map + collect over the children from position i on; the map    *)
(* closure hits unreachable!() on the first entity that is no StructField  *)
RECURSIVE CollectFields(_, _, _)
CollectFields(children, i, fields) ==
    IF i > Len(children) THEN Ok(fields)
    ELSE IF IsAttributeChild(children[i])
    THEN IF children[i].entity.kind = "StructField"
         THEN CollectFields(children, i + 1, Append(fields, children[i].entity))
         ELSE Panic
    ELSE CollectFields(children, i + 1, fields)

attributes_to_fields(children) == CollectFields(children, 1, <<>>)

----------------------------------------------------------------------------
(* Inputs *)

NameAlphabet == {"a", "s", "A", "1", "_"}

RawNames == Strings(NameAlphabet, 1, MaxNameLen) \cup RS_KEYWORDS

FieldNameCalls == { [fn |-> "get_field_name", name |-> n] : n \in RawNames }

TypeNameCalls == { [fn |-> "get_type_name", name |-> n] : n \in RawNames }

TokenAlphabet == {"t", "a", "A", "1", ":", "-"}

BuiltinTokens == { BuiltinTable[i][1] : i \in 1..Len(BuiltinTable) }

TypeTokens == Strings(TokenAlphabet, 1, MaxTokenLen) \cup BuiltinTokens \cup RS_KEYWORDS

Prefixes == { <<"t">>, <<"t", "a">>, <<"x", "s">> }

UriAlphabet == {"u", ":", " ", "\""}

Uris == Strings(UriAlphabet, 0, MaxUriLen)

(* roxmltree::Namespace: an optional prefix and a URI *)
Namespaces ==
    { [name |-> None, uri |-> u] : u \in Uris }
        \cup { [name |-> Some(p), uri |-> u] : p \in Prefixes, u \in Uris }

OptNamespaces == {None} \cup { Some(ns) : ns \in Namespaces }

(* the namespace contexts of the resolver: the URI plays no role in it *)
ResolverContexts == { o \in OptNamespaces : is_some(o) => unwrap(o).uri = <<"u">> }

MatchTypeCalls ==
    { [fn |-> "match_type", type_name |-> t, target_ns |-> o] :
        t \in TypeTokens, o \in ResolverContexts }

LineAlphabet == {"a", " "}

CommentCalls ==
    { [fn |-> "split_comment_line", s |-> s, max_len |-> m, indent |-> n] :
        s \in Strings(LineAlphabet, 0, MaxLineLen), m \in 0..MaxWidth, n \in 0..MaxIndent }

ElementNames == { <<"a">>, <<"b">> }

(* an element of the path: its ElementType and its name attribute *)
PathElements ==
    { [xsd_type |-> t, name |-> a] :
        t \in {"Schema", "Sequence"}, a \in {None} \cup { Some(x) : x \in ElementNames } }

ParentNameCalls ==
    { [fn |-> "get_parent_name", path |-> p] :
        p \in UNION { [1..n -> PathElements] : n \in 1..MaxDepth } }

StructMacroCalls == { [fn |-> "struct_macro", target_namespace |-> o] : o \in OptNamespaces }

(* what the external parse_node returns for a child *)
Entities ==
    { [kind |-> "StructField", name |-> x] : x \in ElementNames }
        \cup { [kind |-> "Struct", name |-> <<"a">>] }

(* a child node: element or not, its ElementType, and its parse_node result *)
(* a non-element child (text, comment) has no tag name, hence no schema kind *)
ChildNodes ==
    { [is_element |-> TRUE, xsd_type |-> t, entity |-> x] :
        t \in {"Attribute", "Element"}, x \in Entities }
        \cup { [is_element |-> FALSE, xsd_type |-> "Unknown", entity |-> [kind |-> "Struct", name |-> <<"a">>]] }

AttributeCalls ==
    { [fn |-> "attributes_to_fields", children |-> c] :
        c \in UNION { [1..n -> ChildNodes] : n \in 0..MaxChildren } }

----------------------------------------------------------------------------
(* State machine: one call per behaviour *)

Init ==
    /\ \/ call \in FieldNameCalls
       \/ call \in TypeNameCalls
       \/ call \in MatchTypeCalls
       \/ call \in CommentCalls
       \/ call \in ParentNameCalls
       \/ call \in StructMacroCalls
       \/ call \in AttributeCalls
    /\ ret = NoRet
    /\ pc = "call"
    /\ cur = IF call.fn = "get_parent_name" THEN Len(call.path) ELSE 0

GetFieldName ==
    /\ pc = "call"
    /\ call.fn = "get_field_name"
    /\ ret' = get_field_name(call.name)
    /\ pc' = "done"
    /\ UNCHANGED <<call, cur>>

GetTypeName ==
    /\ pc = "call"
    /\ call.fn = "get_type_name"
    /\ ret' = get_type_name(call.name)
    /\ pc' = "done"
    /\ UNCHANGED <<call, cur>>

MatchType ==
    /\ pc = "call"
    /\ call.fn = "match_type"
    /\ ret' = match_type(call.type_name, call.target_ns)
    /\ pc' = "done"
    /\ UNCHANGED <<call, cur>>

SplitCommentLine ==
    /\ pc = "call"
    /\ call.fn = "split_comment_line"
    /\ ret' = Ok(split_comment_line(call.s, call.max_len, call.indent))
    /\ pc' = "done"
    /\ UNCHANGED <<call, cur>>

(* the walk with the name attribute looked at before the schema test *)
GetParentName_NameFirst ==
    /\ pc = "call"
    /\ call.fn = "get_parent_name"
    /\ LET parent == parent_element(cur) IN
       IF is_some(parent)
       THEN LET p == call.path[unwrap(parent)] IN
            IF is_some(p.name)
            THEN ret' = Ok(unwrap(p.name)) /\ pc' = "done" /\ cur' = cur
            ELSE IF p.xsd_type = "Schema"
            THEN ret' = Ok(SchemaElement) /\ pc' = "done" /\ cur' = cur
            ELSE ret' = ret /\ pc' = pc /\ cur' = unwrap(parent)
       ELSE ret' = Ok(UnsupportedName) /\ pc' = "done" /\ cur' = cur
    /\ UNCHANGED call

(* one activation of get_parent_name on the node at position cur: it        *)
(* returns, or calls itself on the parent and returns what that call returns *)
GetParentName ==
    /\ pc = "call"
    /\ call.fn = "get_parent_name"
    /\ LET parent == parent_element(cur) IN
       IF is_some(parent)
       THEN LET p == call.path[unwrap(parent)] IN
            IF p.xsd_type = "Schema"
            THEN ret' = Ok(SchemaElement) /\ pc' = "done" /\ cur' = cur
            ELSE IF is_some(p.name)
            THEN ret' = Ok(unwrap(p.name)) /\ pc' = "done" /\ cur' = cur
            ELSE ret' = ret /\ pc' = pc /\ cur' = unwrap(parent)
       ELSE ret' = Ok(UnsupportedName) /\ pc' = "done" /\ cur' = cur
    /\ UNCHANGED call

StructMacro ==
    /\ pc = "call"
    /\ call.fn = "struct_macro"
    /\ ret' = Ok(struct_macro(call.target_namespace))
    /\ pc' = "done"
    /\ UNCHANGED <<call, cur>>

AttributesToFields ==
    /\ pc = "call"
    /\ call.fn = "attributes_to_fields"
    /\ ret' = attributes_to_fields(call.children)
    /\ pc' = "done"
    /\ UNCHANGED <<call, cur>>

Next ==
    \/ GetFieldName
    \/ GetTypeName
    \/ MatchType
    \/ SplitCommentLine
    \/ GetParentName
    \/ StructMacro
    \/ AttributesToFields

Spec == Init /\ [][Next]_vars

(* the calls of get_parent_name alone: a running call is not suspended      *)
(* forever (the program is sequential), so every activation takes its step  *)
ParentInit ==
    /\ call \in ParentNameCalls
    /\ ret = NoRet
    /\ pc = "call"
    /\ cur = Len(call.path)

ParentNext == GetParentName

ParentSpec == ParentInit /\ [][ParentNext]_vars /\ WF_vars(GetParentName)

----------------------------------------------------------------------------
(* Helpers of the properties *)

Returned(fn) == pc = "done" /\ call.fn = fn

(* the physical lines of a text: its segments up to each "\n" *)
RECURSIVE LinesLoop(_, _, _, _)
LinesLoop(text, i, line, lines) ==
    IF i > Len(text) THEN (IF line = <<>> THEN lines ELSE Append(lines, line))
    ELSE IF text[i] = "\n"
    THEN LinesLoop(text, i + 1, <<>>, Append(lines, line))
    ELSE LinesLoop(text, i + 1, Append(line, text[i]), lines)

PhysicalLines(text) == LinesLoop(text, 1, <<>>, <<>>)

(* the words a physical comment line holds: what follows its "//" *)
LineWords(line) == Tail(split_whitespace(line))

RECURSIVE Flatten(_)
Flatten(seqs) == IF seqs = <<>> THEN <<>> ELSE Head(seqs) \o Flatten(Tail(seqs))

AllLineWords(text) ==
    LET lines == PhysicalLines(text)
    IN  Flatten([k \in 1..Len(lines) |-> LineWords(lines[k])])

(* a line that holds one word which, with indentation and "// ", is over the budget *)
SingleUnfitWord(line, max_len, indent) ==
    /\ Len(LineWords(line)) = 1
    /\ indent + 3 + Len(LineWords(line)[1]) > max_len

(* the text of a resolver token before and after its first ':' *)
HasColon(token) == is_some(find(token, ":"))

TokenPrefix(token) == SliceTo(token, unwrap(find(token, ":")))

TokenLocal(token) == SliceFrom(token, unwrap(find(token, ":")) + 1)

(* positions of the proper ancestors of the path's node that decide its parent name *)
Deciding(path) ==
    { j \in 1..(Len(path) - 1) : path[j].xsd_type = "Schema" \/ is_some(path[j].name) }

Nearest(path) == CHOOSE j \in Deciding(path) : \A k \in Deciding(path) : k <= j

(* positions of the children that are attribute-declaration elements *)
AttributePositions(children) ==
    { i \in 1..Len(children) : children[i].is_element /\ children[i].xsd_type = "Attribute" }

(* the k-th attribute position in document order *)
KthAttribute(children, k) ==
    CHOOSE i \in AttributePositions(children) :
        Cardinality({ j \in AttributePositions(children) : j < i }) = k - 1

(* which of the three annotation cases a namespace context is *)
NamespaceCase(o) ==
    IF ~is_some(o) THEN "none" ELSE IF is_some(unwrap(o).name) THEN "prefixed" ELSE "unprefixed"

----------------------------------------------------------------------------
(* C1: the result of get_field_name and of get_type_name never starts with *)
(* a digit and is never an entry of RS_KEYWORDS; it is the case-converted  *)
(* name, with an underscore in front when the converted name needs it.     *)
C1_SanitizedNames ==
    (pc = "done" /\ call.fn \in {"get_field_name", "get_type_name"} /\ ret.kind = "ok") =>
        LET converted == IF call.fn = "get_field_name"
                         THEN to_snake_case(call.name) ELSE to_pascal_case(call.name)
        IN  /\ ret.val # <<>>
            /\ ~is_numeric(ret.val[1])
            /\ ret.val \notin RS_KEYWORDS
            /\ ret.val \in {converted, <<"_">> \o converted}

(* a raw name that is no keyword itself but converts to one, and got the underscore *)
C1_Witness ==
    /\ Returned("get_field_name")
    /\ call.name \notin RS_KEYWORDS
    /\ ret.kind = "ok"
    /\ ret.val[1] = "_"
    /\ Tail(ret.val) \in RS_KEYWORDS

(* C2: for a token of the built-in table match_type returns the table's    *)
(* target type under every namespace context.                              *)
C2_BuiltinPrecedence ==
    Returned("match_type") =>
        \A i \in 1..Len(BuiltinTable) :
            call.type_name = BuiltinTable[i][1] => ret = Ok(BuiltinTable[i][2])

(* a built-in token resolved under a namespace whose prefix the token starts with *)
C2_Witness ==
    /\ Returned("match_type")
    /\ call.type_name \in BuiltinTokens
    /\ is_some(ns_prefix(call.target_ns))
    /\ starts_with(call.type_name, unwrap(ns_prefix(call.target_ns)))
    /\ ret.kind = "ok"

(* C3: with p the prefix of the target namespace and L a non-built-in      *)
(* local name, match_type(p:L, ns) returns what match_type(L, ns) returns. *)
C3_SameNamespaceEquivalence ==
    (/\ Returned("match_type")
     /\ is_some(ns_prefix(call.target_ns))
     /\ starts_with(call.type_name, unwrap(ns_prefix(call.target_ns)) \o <<":">>)) =>
        LET L == SliceFrom(call.type_name, Len(unwrap(ns_prefix(call.target_ns))) + 1)
        IN  (L # <<>> /\ ~HasColon(L) /\ ~IsBuiltin(L)) =>
                ret = match_type(L, call.target_ns)

(* C4: a non-built-in token q:L under a namespace whose prefix is not q    *)
(* (or with no prefix, or no namespace) resolves to q::PascalCase(L).      *)
C4_CrossNamespaceScoped ==
    (/\ Returned("match_type")
     /\ ~IsBuiltin(call.type_name)
     /\ HasColon(call.type_name)
     /\ ns_prefix(call.target_ns) # Some(TokenPrefix(call.type_name))) =>
        ret = Ok(TokenPrefix(call.type_name) \o <<":", ":">>
                    \o to_pascal_case(TokenLocal(call.type_name)))

(* C5 as stated: every physical line of split_comment_line is at most      *)
(* max_len long unless it holds a single word that does not fit, and the   *)
(* words come out whole and in order.                                      *)
C5_LineWithinBudget ==
    Returned("split_comment_line") =>
        LET lines == PhysicalLines(ret.val)
        IN  /\ \A k \in 1..Len(lines) :
                  \/ Len(lines[k]) <= call.max_len
                  \/ SingleUnfitWord(lines[k], call.max_len, call.indent)
            /\ AllLineWords(ret.val) = split_whitespace(call.s)

(* C5 amended: every physical line of split_comment_line is at most        *)
(* max_len long unless it holds a single word that does not fit or it is   *)
(* the word-less first line (indentation and "//") under a max_len below   *)
(* indent + 2; the words come out whole and in order.                      *)
C5_LineWithinBudgetAmended ==
    Returned("split_comment_line") =>
        LET lines == PhysicalLines(ret.val)
        IN  /\ \A k \in 1..Len(lines) :
                  \/ Len(lines[k]) <= call.max_len
                  \/ SingleUnfitWord(lines[k], call.max_len, call.indent)
                  \/ (k = 1 /\ LineWords(lines[k]) = <<>> /\ call.max_len < call.indent + 2)
            /\ AllLineWords(ret.val) = split_whitespace(call.s)

(* a wrapped comment with a line of several words filled to the budget and *)
(* a line over the budget *)
C5_Witness ==
    /\ Returned("split_comment_line")
    /\ call.max_len >= call.indent + 2
    /\ LET lines == PhysicalLines(ret.val)
       IN  /\ \E k \in 1..Len(lines) :
                 Len(LineWords(lines[k])) >= 2 /\ Len(lines[k]) = call.max_len
           /\ \E k \in 1..Len(lines) : Len(lines[k]) > call.max_len

(* the result of get_parent_name the claim names for a path *)
ExpectedParentName(path) ==
    IF Deciding(path) = {} THEN UnsupportedName
    ELSE IF path[Nearest(path)].xsd_type = "Schema" THEN SchemaElement
    ELSE unwrap(path[Nearest(path)].name)

(* C6: get_parent_name returns, and what it returns is decided by the      *)
(* nearest proper ancestor that is the schema element or carries a name:   *)
(* the sentinel SchemaElement, that ancestor's name, or UnsupportedName     *)
(* when there is no such ancestor.                                         *)
C6_ParentName ==
    /\ [](Returned("get_parent_name") => ret = Ok(ExpectedParentName(call.path)))
    /\ <>(pc = "done")

(* an unnamed parent below a named grandparent: the grandparent's name comes back *)
C6_Witness ==
    /\ Returned("get_parent_name")
    /\ Len(call.path) >= 3
    /\ LET n == Len(call.path) IN
        /\ call.path[n - 1].xsd_type # "Schema"
        /\ ~is_some(call.path[n - 1].name)
        /\ call.path[n - 2].xsd_type # "Schema"
        /\ is_some(call.path[n - 2].name)
        /\ ret = Ok(unwrap(call.path[n - 2].name))

(* C7: attributes_to_fields returns one field record per child that is an  *)
(* attribute-declaration element, in document order, and none for another  *)
(* child; it aborts when parse_node hands back a non-field entity for one. *)
C7_AttributeFields ==
    Returned("attributes_to_fields") =>
        LET P == AttributePositions(call.children)
            bad == \E i \in P : call.children[i].entity.kind # "StructField"
        IN  IF bad THEN ret.kind = "panic"
            ELSE /\ ret.kind = "ok"
                 /\ Len(ret.val) = Cardinality(P)
                 /\ \A k \in 1..Len(ret.val) :
                        ret.val[k] = call.children[KthAttribute(call.children, k)].entity

(* two different fields collected in order, with another child left out *)
C7_Witness ==
    /\ Returned("attributes_to_fields")
    /\ ret.kind = "ok"
    /\ Len(ret.val) = 2
    /\ ret.val[1] # ret.val[2]
    /\ Len(call.children) > 2

(* C8: the annotation of a namespace context differs from the annotation   *)
(* of every context of another case (none, unprefixed, prefixed), for all  *)
(* URIs and prefixes; each starts with the derive line, and without a      *)
(* namespace the empty yaserde directive follows it.                       *)
C8_DistinctAnnotations ==
    Returned("struct_macro") =>
        /\ starts_with(ret.val, derives)
        /\ \A o \in OptNamespaces :
              NamespaceCase(o) # NamespaceCase(call.target_namespace) =>
                  struct_macro(o) # ret.val
        /\ ~is_some(call.target_namespace) =>
              SliceFrom(ret.val, Len(derives))
                  = <<"#", "[", "y", "a", "s", "e", "r", "d", "e", "(", ")", "]", "\n">>

(* the annotation of a namespace without prefix whose URI holds a quote *)
C8_Witness ==
    /\ Returned("struct_macro")
    /\ NamespaceCase(call.target_namespace) = "unprefixed"
    /\ InSeq("\"", unwrap(call.target_namespace).uri)
    /\ ret.kind = "ok"

(* the part of a resolved type name that is the type identifier *)
ResolvedIdentifier(type_name) ==
    IF HasColon(type_name) /\ starts_with(TokenLocal(type_name), <<":">>)
    THEN Tail(TokenLocal(type_name))
    ELSE type_name

(* the local part of a token that match_type turns into the identifier *)
LocalPart(token, target_ns) ==
    IF is_some(ns_prefix(target_ns)) /\ starts_with(token, unwrap(ns_prefix(target_ns)) \o <<":">>)
    THEN SliceFrom(token, Len(unwrap(ns_prefix(target_ns))) + 1)
    ELSE IF HasColon(token) THEN TokenLocal(token)
    ELSE token

(* C9: the type identifier match_type produces for a non-built-in token    *)
(* never starts with a digit, is never a reserved word, and is what        *)
(* get_type_name returns for the token's local part.                       *)
C9_ResolvedNameSanitized ==
    (Returned("match_type") /\ ~IsBuiltin(call.type_name) /\ ret.kind = "ok") =>
        LET id == ResolvedIdentifier(ret.val)
            sanitized == get_type_name(LocalPart(call.type_name, call.target_ns))
        IN  /\ id # <<>> => ~is_numeric(id[1])
            /\ id \notin RS_KEYWORDS
            /\ sanitized.kind = "ok" => Ok(id) = sanitized

(* C10: match_type returns a type name for every non-empty token under     *)
(* every namespace context; it never aborts.                               *)
C10_MatchTypeTotal ==
    (Returned("match_type") /\ call.type_name # <<>>) => ret.kind = "ok"

====
